---- MODULE Spec2Model ----
(***************************************************************************)
(* Hydra tracker (src/src/types.ts): the App component's handlers, its     *)
(* settings synchronisation and its reminder scheduler, as a state         *)
(* machine over the record store and the operating system.                 *)
(*                                                                         *)
(* One step is one turn of the JavaScript event loop: the code that runs   *)
(* between two awaits of one async function, or one timer callback, or one *)
(* user event.  An `await` of an external call (store invoke, autostart    *)
(* plugin, notification plugin) resolves in a step of its own, at which    *)
(* the call's effect happens and the continuation runs up to the next      *)
(* await.  A React state update whose re-render changes the dependencies   *)
(* of the reminder effect runs the effect's cleanup and the new effect in  *)
(* the same step.                                                          *)
(*                                                                         *)
(* The store's commands (the Tauri backend) are not part of src/: what     *)
(* they compute is taken from the specification's data model and           *)
(* statistics engine (sections 3 and 4.1).                                 *)
(***************************************************************************)
EXTENDS Integers, FiniteSets, Sequences, TLC

(* ------------------------------ bounds --------------------------------- *)

\* setup runs (effect executions that reach an await) over one behaviour
MaxRuns == 2

\* handler calls the user starts over one behaviour
MaxCalls == 1

\* entries of one day, in the statistics engine's inputs
MaxEntries == 3

\* days of a month, in the statistics engine's inputs
MaxDay == 5

\* how many months away from the starting month the user navigates
MaxAway == 2

(* ----------------------------- constants ------------------------------- *)

\* values the reminder-interval input hands to handleSaveSettings
IntervalInputs == {30, 60}

\* values the Water Goal input hands to handleSaveSettings:
\* parseInt(e.target.value) || 0
GoalInputs == {-1000, 0, 1000}

\* amounts handed to handleAddWater: a quick-add button (500), the custom
\* field's parseInt(customAmount) || 0, the payload of a tray quick-add event
AmountInputs == {-250, 0, 500, 2000}

Settings == [daily_goal_ml : GoalInputs \cup {4000},
             reminder_enabled : BOOLEAN,
             reminder_interval_minutes : IntervalInputs,
             sound_enabled : BOOLEAN,
             start_with_system : BOOLEAN]

defaultSettings == [daily_goal_ml |-> 4000,
                    reminder_enabled |-> TRUE,
                    reminder_interval_minutes |-> 60,
                    sound_enabled |-> TRUE,
                    start_with_system |-> FALSE]

\* useState<DailyStats | null>(null), useState<MonthlyStats | null>(null)
Null == [null |-> TRUE]

\* What a step shows or sends out, "none" when nothing: a toast (setToast with
\* show: true; its hiding after a timeout is not modelled), a sendNotification
\* that threw, a reconciliation written to the store, the error sound.  The
\* other sounds, the toast of a successful add and the text of the custom
\* field are not modelled.
NoEvent == "none"
PermissionToast == "Notification permission required for reminders! Check system settings."
AutostartToast == "Failed to update autostart setting"
DeliveryFailed == "Failed to send notification"
Reconciled == "start_with_system reconciled"
ErrorSound == "error sound"
MonthlyLoadFailed == "Failed to load monthly stats"

VARIABLES
    mounted,           \* the App component is mounted
    settings,          \* useState<Settings>
    persisted,         \* the store's settings record
    osAutostart,       \* the OS autostart registration
    osPermission,      \* the OS notification permission is granted
    tasks,             \* handler calls in flight, by slot
    setups,            \* setupReminder runs suspended at an await
    nextRun,           \* id of the next setup run (and of the timer it creates)
    reminderInterval,  \* useRef: the timer handle, 0 for null
    timers,            \* live recurring timers (setInterval not yet cleared)
    oneShots,          \* pending confirmation timeouts, by the run that set them
    deniedSince,       \* history: a request was denied, no user reminder change since
    event,             \* what the last step showed or sent out
    store,             \* the store's entries of today
    nextEntry,         \* the id the store gives the next entry
    history,           \* the store's days with data of the month the app starts in
    stats,             \* useState<DailyStats | null>
    entries,           \* useState<WaterEntry[]>
    monthlyStats,      \* useState<MonthlyStats | null>
    selectedMonth,     \* useState: {year, month}
    achievement,       \* achievement.show
    achievementTimeout \* useRef: a timeout that hides the achievement is pending

storeVars == <<store, nextEntry, history>>

viewVars == <<stats, entries, monthlyStats, selectedMonth, achievement>>

dayVars == <<storeVars, viewVars, achievementTimeout>>

vars == <<mounted, settings, persisted, osAutostart, osPermission, tasks,
          setups, nextRun, reminderInterval, timers, oneShots, deniedSince, event,
          store, nextEntry, history, stats, entries, monthlyStats, selectedMonth,
          achievement, achievementTimeout>>

(* ------------------------------ helpers -------------------------------- *)

\* { ...settings, ...newSettings }
Merge(s, patch) ==
    [f \in DOMAIN s |-> IF f \in DOMAIN patch THEN patch[f] ELSE s[f]]

\* settings.reminder_interval_minutes * 60 * 1000
IntervalMs(minutes) == minutes * 60 * 1000

\* clearInterval(handle): a handle of a timer already cleared, or null, clears nothing
ClearInterval(ts, handle) == {t \in ts : t.id # handle}

TimerIds == {t.id : t \in timers}

\* playSound(type, enabled): whether a sound is played
playSound(enabled) == enabled

\* the month the app starts in: new Date() of the first render
ThisMonth == [year |-> 2025, month |-> 12]

\* handler calls by slot: slot 1 is the loadData of the initial load, the
\* user's k-th handler call takes slot k + 1
TaskSlots == 1..(MaxCalls + 1)

\* a call that has returned
DoneTask == [pc |-> "done", updated |-> defaultSettings, saved |-> defaultSettings,
             osResult |-> "none", arg |-> 0, celebrate |-> FALSE, sound |-> FALSE,
             early |-> Null, month |-> ThisMonth]

\* a call not yet made; started, it holds its position (pc), its locals
\* (updated, saved), its argument (arg: an amount or an entry id) and what
\* its closure says (celebrate, sound); early is the answer to a read of a
\* Promise.all that the store gave ahead of the others, or Null; month is
\* the {year, month} a loadMonthlyStats asks for
IdleTask == [pc |-> "idle", updated |-> defaultSettings, saved |-> defaultSettings,
             osResult |-> "none", arg |-> 0, celebrate |-> FALSE, sound |-> FALSE,
             early |-> Null, month |-> ThisMonth]

FreeSlots == {i \in TaskSlots : tasks[i].pc = "idle"}

\* the slot a new handler call takes
NewSlot == CHOOSE i \in FreeSlots : \A j \in FreeSlots : i <= j

\* setToast({message, show: true}); a component that is unmounted shows nothing
ShowToast(message) == event' = IF mounted THEN message ELSE NoEvent

(* ------------------------------- numbers -------------------------------- *)

\* A percentage is the quotient the store computes, kept as numerator and
\* denominator; compared as the JavaScript numbers they are (x / 0 is an
\* infinity, 0 / 0 is NaN and compares false with everything).
Rat(n, d) == [num |-> n, den |-> d]

Norm(r) == IF r.den < 0 THEN Rat(0 - r.num, 0 - r.den) ELSE r

IsNaN(r) == r.den = 0 /\ r.num = 0

\* a < b
Less(a, b) ==
    /\ ~IsNaN(a)
    /\ ~IsNaN(b)
    /\ Norm(a).num * Norm(b).den < Norm(b).num * Norm(a).den

\* a >= b
GreaterEq(a, b) == ~IsNaN(a) /\ ~IsNaN(b) /\ ~Less(a, b)

\* Math.min(a, b)
MathMin(a, b) ==
    IF IsNaN(a) THEN a ELSE IF IsNaN(b) THEN b ELSE IF Less(b, a) THEN b ELSE a

\* const progress = stats ? Math.min(stats.percentage / 100, 1) : 0
Progress(st) ==
    IF st = Null THEN Rat(0, 1)
    ELSE MathMin(Rat(st.percentage.num, st.percentage.den * 100), Rat(1, 1))

(* -------------------------- statistics engine --------------------------- *)

\* entries of today as the store can hold them: ids 1..n, positive amounts
Stores(n) ==
    UNION {{{[id |-> i, amount_ml |-> f[i]] : i \in 1..k} :
                f \in [1..k -> {a \in AmountInputs : a > 0}]} : k \in 0..n}

RECURSIVE SumAmounts(_)
SumAmounts(es) ==
    IF es = {} THEN 0
    ELSE LET e == CHOOSE x \in es : TRUE
         IN e.amount_ml + SumAmounts(es \ {e})

\* get_today_stats with a percentage that stops at 100
get_today_stats_capped(es, goal) ==
    [total_ml |-> SumAmounts(es),
     goal_ml |-> goal,
     entries_count |-> Cardinality(es),
     percentage |-> MathMin(Rat(SumAmounts(es) * 100, goal), Rat(100, 1))]

\* the store's get_today_stats: DailyStats of today's entries against the
\* goal of the stored settings (the date field is left out)
get_today_stats(es, goal) ==
    [total_ml |-> SumAmounts(es),
     goal_ml |-> goal,
     entries_count |-> Cardinality(es),
     percentage |-> Rat(SumAmounts(es) * 100, goal)]

\* total_ml of a day with data
DayTotals == {500, 4000}

\* the days with data of a month, ascending, from a table day -> total_ml
\* (0: no entries that day)
RECURSIVE DaysOf(_, _)
DaysOf(f, n) ==
    IF n = 0 THEN <<>>
    ELSE IF f[n] = 0 THEN DaysOf(f, n - 1)
         ELSE Append(DaysOf(f, n - 1), [day |-> n, total_ml |-> f[n]])

Histories(n) == {DaysOf(f, n) : f \in [1..n -> DayTotals \cup {0}]}

\* RunEndingAt that walks over date gaps
RECURSIVE RunEndingAtIgnoringGaps(_, _, _)
RunEndingAtIgnoringGaps(days, i, goal) ==
    IF i = 0 THEN 0
    ELSE IF days[i].total_ml < goal THEN 0
    ELSE 1 + RunEndingAtIgnoringGaps(days, i - 1, goal)

\* the run of counting days that ends at days[i]: it stops at the first day
\* that misses the goal and at a date gap
RECURSIVE RunEndingAt(_, _, _)
RunEndingAt(days, i, goal) ==
    IF i = 0 THEN 0
    ELSE IF days[i].total_ml < goal THEN 0
    ELSE IF i > 1 /\ days[i - 1].day = days[i].day - 1
         THEN 1 + RunEndingAt(days, i - 1, goal)
         ELSE 1

RECURSIVE BestRun(_, _, _)
BestRun(days, i, goal) ==
    IF i = 0 THEN 0
    ELSE LET here == RunEndingAt(days, i, goal)
             before == BestRun(days, i - 1, goal)
         IN IF here > before THEN here ELSE before

\* the store's get_monthly_stats over the days with data (month, year, days
\* and average_ml are left out)
get_monthly_stats(days, goal) ==
    [total_ml |-> IF days = <<>> THEN 0
                  ELSE SumAmounts({[id |-> i, amount_ml |-> days[i].total_ml] :
                                       i \in 1..Len(days)}),
     days_goal_met |-> Cardinality({i \in 1..Len(days) : days[i].total_ml >= goal}),
     current_streak |-> RunEndingAt(days, Len(days), goal),
     best_streak |-> BestRun(days, Len(days), goal)]

(* ------------------------- the reminder effect -------------------------- *)

\* useEffect deps: [settings.reminder_enabled, settings.reminder_interval_minutes]
DepsChanged(old, new) ==
    \/ old.reminder_enabled # new.reminder_enabled
    \/ old.reminder_interval_minutes # new.reminder_interval_minutes

\* The effect re-runs: the previous run's cleanup (clearInterval on the handle,
\* which stays set), then setupReminder up to its first await.  Disabled: it
\* clears and nulls the handle and returns.  Enabled: it suspends at
\* isPermissionGranted with the settings of this render in its closure.
ReminderEffect(new, origin) ==
    /\ timers' = ClearInterval(timers, reminderInterval)
    /\ achievementTimeout' = FALSE
    /\ IF ~new.reminder_enabled
       THEN /\ reminderInterval' = 0
            /\ UNCHANGED <<setups, nextRun>>
       ELSE /\ nextRun <= MaxRuns
            /\ setups' = setups \cup
                   {[id |-> nextRun, pc |-> "check",
                     interval |-> new.reminder_interval_minutes,
                     sound |-> new.sound_enabled, origin |-> origin]}
            /\ nextRun' = nextRun + 1
            /\ UNCHANGED reminderInterval

\* setSettings(new) and the render it causes
SetSettings(new, origin) ==
    IF ~mounted
    THEN UNCHANGED <<settings, setups, nextRun, reminderInterval, timers,
                     achievementTimeout>>
    ELSE /\ settings' = new
         /\ IF DepsChanged(settings, new)
            THEN ReminderEffect(new, origin)
            ELSE UNCHANGED <<setups, nextRun, reminderInterval, timers,
                             achievementTimeout>>

\* ArmTimers without the clearInterval of the handle
ArmTimersWithoutClear(r) ==
    timers \cup {[id |-> r.id, ms |-> IntervalMs(r.interval), sound |-> r.sound]}

\* setupReminder from "Clear existing interval" on: the timers that are live
\* after clearInterval(reminderInterval.current) and setInterval(..., intervalMs)
ArmTimers(r) ==
    ClearInterval(timers, reminderInterval)
        \cup {[id |-> r.id, ms |-> IntervalMs(r.interval), sound |-> r.sound]}

\* setupReminder once permission is granted: clear, schedule the test
\* notification (setTimeout 2000), set the new interval and keep its handle
Arm(r) ==
    /\ timers' = ArmTimers(r)
    /\ reminderInterval' = r.id
    /\ oneShots' = oneShots \cup {r.id}
    /\ setups' = setups \ {r}
    /\ event' = NoEvent
    /\ UNCHANGED deniedSince

\* permission not granted after the request: warn, toast, return
Refuse(r) ==
    /\ ShowToast(PermissionToast)
    /\ deniedSince' = TRUE
    /\ setups' = setups \ {r}
    /\ UNCHANGED <<timers, reminderInterval, oneShots>>

\* await isPermissionGranted() resolves
IsPermissionGrantedReturns ==
    \E r \in setups :
        /\ r.pc = "check"
        /\ IF osPermission
           THEN Arm(r)
           ELSE /\ setups' = (setups \ {r}) \cup {[r EXCEPT !.pc = "request"]}
                /\ event' = NoEvent
                /\ UNCHANGED <<timers, reminderInterval, oneShots, deniedSince>>
        /\ UNCHANGED <<mounted, settings, persisted, osAutostart, osPermission,
                       tasks, nextRun>>
        /\ UNCHANGED dayVars

\* await requestPermission() resolves: 'granted' when the OS permission is
\* granted already, otherwise whatever the user answers
RequestPermissionReturns ==
    \E r \in setups, answer \in BOOLEAN :
        /\ r.pc = "request"
        /\ LET permissionGranted == osPermission \/ answer IN
           /\ osPermission' = permissionGranted
           /\ IF permissionGranted THEN Arm(r) ELSE Refuse(r)
        /\ UNCHANGED <<mounted, settings, persisted, osAutostart, tasks, nextRun>>
        /\ UNCHANGED dayVars

\* the setTimeout(..., 2000) callback of the run that armed: sendNotification
\* in a try/catch
TestNotificationFires ==
    \E id \in oneShots, ok \in BOOLEAN :
        /\ oneShots' = oneShots \ {id}
        /\ event' = IF ok THEN NoEvent ELSE DeliveryFailed
        /\ UNCHANGED <<mounted, settings, persisted, osAutostart, osPermission,
                       tasks, setups, nextRun, reminderInterval, timers, deniedSince>>
        /\ UNCHANGED dayVars

\* TimersAfterCallback with a catch that gives up the timer
TimersAfterCallbackStopOnFailure(id, ok) ==
    IF ok THEN timers ELSE ClearInterval(timers, id)

\* the timers left after one run of the setInterval callback
TimersAfterCallback(id, ok) == timers

\* the setInterval callback: sendNotification in a try/catch
ReminderIntervalFires ==
    \E t \in timers, ok \in BOOLEAN :
        /\ timers' = TimersAfterCallback(t.id, ok)
        /\ event' = IF ok THEN NoEvent ELSE DeliveryFailed
        /\ UNCHANGED <<mounted, settings, persisted, osAutostart, osPermission,
                       tasks, setups, nextRun, reminderInterval, oneShots, deniedSince>>
        /\ UNCHANGED dayVars

\* the component is torn down: the effect's cleanup runs one last time
Unmount ==
    /\ mounted
    /\ mounted' = FALSE
    /\ timers' = ClearInterval(timers, reminderInterval)
    /\ achievementTimeout' = FALSE
    /\ event' = NoEvent
    /\ UNCHANGED <<settings, persisted, osAutostart, osPermission, tasks,
                   setups, nextRun, reminderInterval, oneShots, deniedSince>>
    /\ UNCHANGED <<storeVars, viewVars>>

\* the user grants or revokes the notification permission in the system settings
PermissionChangedInSystem ==
    /\ osPermission' = ~osPermission
    /\ event' = NoEvent
    /\ UNCHANGED <<mounted, settings, persisted, osAutostart, tasks, setups,
                   nextRun, reminderInterval, timers, oneShots, deniedSince>>
    /\ UNCHANGED dayVars

(* --------------------------- handleSaveSettings ------------------------- *)

TouchesReminder(patch) ==
    \/ "reminder_enabled" \in DOMAIN patch
    \/ "reminder_interval_minutes" \in DOMAIN patch

\* handleSaveSettings up to its first await: setSettings(updated), then
\* enableAutostart/disableAutostart when start_with_system is given, else
\* invoke('save_settings')
handleSaveSettings(newSettings) ==
    /\ mounted
    /\ FreeSlots # {}
    /\ LET updated == Merge(settings, newSettings) IN
       /\ SetSettings(updated, "user")
       /\ tasks' = [tasks EXCEPT ![NewSlot] =
              [IdleTask EXCEPT
                 !.pc = IF "start_with_system" \in DOMAIN newSettings
                        THEN "autostart" ELSE "save",
                 !.updated = updated]]
    /\ deniedSince' = IF TouchesReminder(newSettings) THEN FALSE ELSE deniedSince
    /\ event' = NoEvent
    /\ UNCHANGED <<mounted, persisted, osAutostart, osPermission, oneShots>>
    /\ UNCHANGED <<storeVars, viewVars>>

\* the Enable Reminders checkbox: onChange hands over e.target.checked
UserTogglesReminders ==
    handleSaveSettings([reminder_enabled |-> ~settings.reminder_enabled])

\* the Reminder Interval input, disabled while reminders are off
UserChangesInterval ==
    \E i \in IntervalInputs \ {settings.reminder_interval_minutes} :
        /\ settings.reminder_enabled
        /\ handleSaveSettings([reminder_interval_minutes |-> i])

\* what can stand in the Reminder Interval field after a keystroke or a paste:
\* nothing, "0", "45", "-5"
IntervalTexts == {<<>>, <<"0">>, <<"4", "5">>, <<"-", "5">>}

Digits == {"0", "1", "2", "3", "4", "5", "6", "7", "8", "9"}

DigitValue(c) ==
    CASE c = "0" -> 0 [] c = "1" -> 1 [] c = "2" -> 2 [] c = "3" -> 3
      [] c = "4" -> 4 [] c = "5" -> 5 [] c = "6" -> 6 [] c = "7" -> 7
      [] c = "8" -> 8 [] c = "9" -> 9

\* the number written by the digits of text from position i on, up to the
\* first character that is not a digit
RECURSIVE ParseDigits(_, _, _)
ParseDigits(text, i, acc) ==
    IF i > Len(text) \/ text[i] \notin Digits
    THEN acc
    ELSE ParseDigits(text, i + 1, acc * 10 + DigitValue(text[i]))

\* where the digits start: after an optional sign
DigitsFrom(text) == IF text # <<>> /\ text[1] = "-" THEN 2 ELSE 1

\* parseInt(text) is NaN: no digit follows the optional sign
ParsesToNaN(text) ==
    DigitsFrom(text) > Len(text) \/ text[DigitsFrom(text)] \notin Digits

\* parseInt(text), for a text that does not parse to NaN
parseInt(text) ==
    IF DigitsFrom(text) = 2
    THEN 0 - ParseDigits(text, 2, 0)
    ELSE ParseDigits(text, 1, 0)

\* parseInt(e.target.value) || 60: NaN and 0 are falsy
IntervalFromInput(text) ==
    IF ParsesToNaN(text) \/ parseInt(text) = 0 THEN 60 ELSE parseInt(text)

\* the Reminder Interval input, typed into: min="15" constrains the arrows
\* and form validation, not the text, and onChange fires on every change
UserTypesInterval ==
    \E text \in IntervalTexts :
        /\ settings.reminder_enabled
        /\ handleSaveSettings([reminder_interval_minutes |-> IntervalFromInput(text)])

\* the Start with System checkbox
UserTogglesAutostart ==
    handleSaveSettings([start_with_system |-> ~settings.start_with_system])

\* the Water Goal input
UserChangesGoal ==
    \E g \in GoalInputs \ {settings.daily_goal_ml} :
        handleSaveSettings([daily_goal_ml |-> g])

\* the Sound checkbox
UserTogglesSound ==
    handleSaveSettings([sound_enabled |-> ~settings.sound_enabled])

\* await enableAutostart() / disableAutostart() resolves or rejects; the catch
\* shows a toast; either way invoke('save_settings', {settings: updated}) is next
AutostartReturns ==
    \E i \in TaskSlots, ok \in BOOLEAN :
        /\ tasks[i].pc = "autostart"
        /\ IF ok
           THEN /\ osAutostart' = tasks[i].updated.start_with_system
                /\ event' = NoEvent
           ELSE /\ ShowToast(AutostartToast)
                /\ UNCHANGED osAutostart
        /\ tasks' = [tasks EXCEPT ![i].pc = "save",
                                  ![i].osResult = IF ok THEN "ok" ELSE "failed"]
        /\ UNCHANGED <<mounted, settings, persisted, osPermission, setups, nextRun,
                       reminderInterval, timers, oneShots, deniedSince>>
        /\ UNCHANGED dayVars

\* await invoke('save_settings', {settings: updated}) resolves, and loadData is
\* called, or rejects, and the catch logs
SaveSettingsReturns ==
    \E i \in TaskSlots, ok \in BOOLEAN :
        /\ tasks[i].pc = "save"
        /\ IF ok
           THEN /\ persisted' = tasks[i].updated
                /\ tasks' = [tasks EXCEPT ![i] = [IdleTask EXCEPT !.pc = "load_read"]]
           ELSE /\ UNCHANGED persisted
                /\ tasks' = [tasks EXCEPT ![i] = DoneTask]
        /\ event' = NoEvent
        /\ UNCHANGED <<mounted, settings, osAutostart, osPermission, setups,
                       nextRun, reminderInterval, timers, oneShots, deniedSince>>
        /\ UNCHANGED dayVars

(* -------------------------------- loadData ------------------------------ *)

\* WithAutostart without the assignment: the stored value is kept
WithAutostartKeepsStored(savedSettings, autostartEnabled) == savedSettings

\* savedSettings.start_with_system = autostartEnabled
WithAutostart(savedSettings, autostartEnabled) ==
    [savedSettings EXCEPT !.start_with_system = autostartEnabled]

\* setStats(todayStats); setEntries(todayEntries)
SetToday(todayStats, todayEntries) ==
    IF mounted
    THEN stats' = todayStats /\ entries' = todayEntries
    ELSE UNCHANGED <<stats, entries>>

\* CatchLoadData of a loadData that awaits its reads one by one and sets each
\* result as it arrives: get_today_stats was set, a later read failed
CatchLoadDataAfterSetStats ==
    /\ stats' = get_today_stats(store, persisted.daily_goal_ml)
    /\ UNCHANGED entries

\* the outer catch of loadData after a failed read: console.error, nothing set
CatchLoadData == UNCHANGED <<stats, entries>>

\* invoke('get_today_stats') of loadData's Promise.all is answered by the store
\* while the other two reads are still in flight: the three are separate
\* calls, and the store may serve a write of another handler between them
GetTodayStatsAnswered ==
    \E i \in TaskSlots :
        /\ tasks[i].pc = "load_read"
        /\ tasks[i].early = Null
        /\ tasks' = [tasks EXCEPT
               ![i].early = get_today_stats(store, persisted.daily_goal_ml)]
        /\ event' = NoEvent
        /\ UNCHANGED <<mounted, settings, persisted, osAutostart, osPermission,
                       setups, nextRun, reminderInterval, timers, oneShots, deniedSince>>
        /\ UNCHANGED dayVars

\* todayStats of the Promise.all: the answer given ahead, or else that of the
\* moment the last read is answered
TodayStatsOf(task) ==
    IF task.early = Null
    THEN get_today_stats(store, persisted.daily_goal_ml)
    ELSE task.early

\* await Promise.all([invoke('get_today_stats'), invoke('get_today_entries'),
\* invoke('get_settings')]) resolves: setStats, setEntries, and
\* isAutostartEnabled is called; or it rejects, and the outer catch logs
LoadDataReads ==
    \E i \in TaskSlots, ok \in BOOLEAN :
        /\ tasks[i].pc = "load_read"
        /\ IF ok
           THEN /\ SetToday(TodayStatsOf(tasks[i]), store)
                /\ tasks' = [tasks EXCEPT ![i] =
                       [IdleTask EXCEPT !.pc = "load_autostart", !.saved = persisted]]
           ELSE /\ CatchLoadData
                /\ tasks' = [tasks EXCEPT ![i] = DoneTask]
        /\ event' = NoEvent
        /\ UNCHANGED <<mounted, settings, persisted, osAutostart, osPermission,
                       setups, nextRun, reminderInterval, timers, oneShots, deniedSince>>
        /\ UNCHANGED <<storeVars, monthlyStats, selectedMonth, achievement,
                       achievementTimeout>>

\* await isAutostartEnabled() resolves: on a difference the saved settings
\* take the OS value and save_settings is invoked; without one, or when the
\* call rejects (inner catch), setSettings(savedSettings) ends loadData
LoadDataChecksAutostart ==
    \E i \in TaskSlots, ok \in BOOLEAN :
        /\ tasks[i].pc = "load_autostart"
        /\ IF ok /\ tasks[i].saved.start_with_system # osAutostart
           THEN /\ tasks' = [tasks EXCEPT
                      ![i].pc = "load_save",
                      ![i].saved = WithAutostart(tasks[i].saved, osAutostart)]
                /\ UNCHANGED <<settings, setups, nextRun, reminderInterval, timers,
                               achievementTimeout>>
           ELSE /\ SetSettings(tasks[i].saved, "load")
                /\ tasks' = [tasks EXCEPT ![i] = DoneTask]
        /\ event' = NoEvent
        /\ UNCHANGED <<mounted, persisted, osAutostart, osPermission, oneShots,
                       deniedSince>>
        /\ UNCHANGED <<storeVars, viewVars>>

\* await invoke('save_settings', {settings: savedSettings}) of the
\* reconciliation resolves or rejects (inner catch); setSettings(savedSettings)
LoadDataSavesCorrection ==
    \E i \in TaskSlots, ok \in BOOLEAN :
        /\ tasks[i].pc = "load_save"
        /\ persisted' = IF ok THEN tasks[i].saved ELSE persisted
        /\ SetSettings(tasks[i].saved, "load")
        /\ tasks' = [tasks EXCEPT ![i] = DoneTask]
        /\ event' = IF ok THEN Reconciled ELSE NoEvent
        /\ UNCHANGED <<mounted, osAutostart, osPermission, oneShots, deniedSince>>
        /\ UNCHANGED <<storeVars, viewVars>>

(* ------------------- handleAddWater, handleRemoveEntry ------------------ *)

schedulerVars == <<setups, nextRun, reminderInterval, timers, oneShots, deniedSince>>

\* Rejects that lets an amount of 0 through
RejectsNegativeOnly(amount) == amount < 0

\* if (amount <= 0) { playSound('error', ...); return; }
Rejects(amount) == amount <= 0

\* what the handler's closure decides of the achievement condition:
\* !achievement.show && stats && stats.percentage < 100
Celebrate(shown, before) ==
    /\ ~shown
    /\ before # Null
    /\ Less(before.percentage, Rat(100, 1))

\* handleAddWater up to its first await: the guard, then invoke('add_water')
handleAddWater(amount, celebrate, sound) ==
    /\ mounted
    /\ IF Rejects(amount)
       THEN /\ event' = IF playSound(sound) THEN ErrorSound ELSE NoEvent
            /\ UNCHANGED tasks
       ELSE /\ FreeSlots # {}
            /\ tasks' = [tasks EXCEPT ![NewSlot] =
                   [IdleTask EXCEPT !.pc = "add_water", !.arg = amount,
                                    !.celebrate = celebrate, !.sound = sound]]
            /\ event' = NoEvent
    /\ UNCHANGED <<mounted, settings, persisted, osAutostart, osPermission>>
    /\ UNCHANGED <<schedulerVars, dayVars>>

\* a quick-add button, or the custom field with Enter or the Add button
UserAddsWater ==
    \E amount \in AmountInputs :
        handleAddWater(amount, Celebrate(achievement, stats), settings.sound_enabled)

\* a 'quick-add' event of the tray: the listener was registered by the first
\* render and calls that render's handleAddWater (stats null, defaultSettings)
TrayQuickAdd ==
    \E amount \in AmountInputs :
        handleAddWater(amount, Celebrate(FALSE, Null), defaultSettings.sound_enabled)

\* await invoke('add_water', {amountMl: amount}) resolves, and the handler
\* re-reads stats and entries, or rejects, and the catch plays the error sound
AddWaterReturns ==
    \E i \in TaskSlots, ok \in BOOLEAN :
        /\ tasks[i].pc = "add_water"
        /\ IF ok
           THEN /\ store' = store \cup {[id |-> nextEntry, amount_ml |-> tasks[i].arg]}
                /\ nextEntry' = nextEntry + 1
                /\ tasks' = [tasks EXCEPT ![i].pc = "add_refetch"]
                /\ event' = NoEvent
           ELSE /\ UNCHANGED <<store, nextEntry>>
                /\ tasks' = [tasks EXCEPT ![i] = DoneTask]
                /\ event' = IF playSound(tasks[i].sound) THEN ErrorSound ELSE NoEvent
        /\ UNCHANGED <<mounted, settings, persisted, osAutostart, osPermission>>
        /\ UNCHANGED <<schedulerVars, history, viewVars, achievementTimeout>>

\* await Promise.all([invoke('get_today_stats'), invoke('get_today_entries')])
\* resolves: the achievement check, then loadData is called; or it rejects,
\* and the catch plays the error sound
AddRefetchReturns ==
    \E i \in TaskSlots, ok \in BOOLEAN :
        /\ tasks[i].pc = "add_refetch"
        /\ IF ok
           THEN /\ LET updatedStats == get_today_stats(store, persisted.daily_goal_ml) IN
                   IF tasks[i].celebrate /\ GreaterEq(updatedStats.percentage, Rat(100, 1))
                   THEN /\ achievement' = IF mounted THEN TRUE ELSE achievement
                        /\ achievementTimeout' = TRUE
                   ELSE UNCHANGED <<achievement, achievementTimeout>>
                /\ tasks' = [tasks EXCEPT ![i] = [IdleTask EXCEPT !.pc = "load_read"]]
                /\ event' = NoEvent
           ELSE /\ UNCHANGED <<achievement, achievementTimeout>>
                /\ tasks' = [tasks EXCEPT ![i] = DoneTask]
                /\ event' = IF playSound(tasks[i].sound) THEN ErrorSound ELSE NoEvent
        /\ UNCHANGED <<mounted, settings, persisted, osAutostart, osPermission>>
        /\ UNCHANGED <<schedulerVars, storeVars, stats, entries, monthlyStats,
                   selectedMonth>>

\* the setTimeout(..., 5000) callback: setAchievement({show: false, ...})
AchievementTimeoutFires ==
    /\ achievementTimeout
    /\ achievementTimeout' = FALSE
    /\ achievement' = IF mounted THEN FALSE ELSE achievement
    /\ event' = NoEvent
    /\ UNCHANGED <<mounted, settings, persisted, osAutostart, osPermission, tasks>>
    /\ UNCHANGED <<schedulerVars, storeVars, stats, entries, monthlyStats,
                   selectedMonth>>

\* handleRemoveEntry up to its await: invoke('remove_entry', {id})
handleRemoveEntry(id) ==
    /\ mounted
    /\ FreeSlots # {}
    /\ tasks' = [tasks EXCEPT ![NewSlot] =
           [IdleTask EXCEPT !.pc = "remove_entry", !.arg = id,
                            !.sound = settings.sound_enabled]]
    /\ event' = NoEvent
    /\ UNCHANGED <<mounted, settings, persisted, osAutostart, osPermission>>
    /\ UNCHANGED <<schedulerVars, dayVars>>

\* the delete button of an entry of the list
UserRemovesEntry == \E e \in entries : handleRemoveEntry(e.id)

\* await invoke('remove_entry', {id}) resolves, and loadData is called, or
\* rejects, and the catch plays the error sound
RemoveEntryReturns ==
    \E i \in TaskSlots, ok \in BOOLEAN :
        /\ tasks[i].pc = "remove_entry"
        /\ IF ok
           THEN /\ store' = {e \in store : e.id # tasks[i].arg}
                /\ tasks' = [tasks EXCEPT ![i] = [IdleTask EXCEPT !.pc = "load_read"]]
                /\ event' = NoEvent
           ELSE /\ UNCHANGED store
                /\ tasks' = [tasks EXCEPT ![i] = DoneTask]
                /\ event' = IF playSound(tasks[i].sound) THEN ErrorSound ELSE NoEvent
        /\ UNCHANGED <<mounted, settings, persisted, osAutostart, osPermission>>
        /\ UNCHANGED <<schedulerVars, nextEntry, history, viewVars, achievementTimeout>>

(* ---------------------------- loadMonthlyStats -------------------------- *)

\* the store's days with data of a month: the store holds none but for the
\* month the app starts in
HistoryOf(month) == IF month = ThisMonth THEN history ELSE <<>>

\* the analytics tab is opened: the effect calls loadMonthlyStats, which
\* awaits invoke('get_monthly_stats', {year, month}) for the selected month
loadMonthlyStats ==
    /\ mounted
    /\ FreeSlots # {}
    /\ tasks' = [tasks EXCEPT ![NewSlot] =
           [IdleTask EXCEPT !.pc = "monthly_read", !.month = selectedMonth]]
    /\ event' = NoEvent
    /\ UNCHANGED <<mounted, settings, persisted, osAutostart, osPermission>>
    /\ UNCHANGED <<schedulerVars, dayVars>>

\* await invoke('get_monthly_stats', ...) resolves: setMonthlyStats(data); or
\* rejects, and the catch logs
GetMonthlyStatsReturns ==
    \E i \in TaskSlots, ok \in BOOLEAN :
        /\ tasks[i].pc = "monthly_read"
        /\ IF ok /\ mounted
           THEN monthlyStats' = get_monthly_stats(HistoryOf(tasks[i].month),
                                                  persisted.daily_goal_ml)
           ELSE UNCHANGED monthlyStats
        /\ tasks' = [tasks EXCEPT ![i] = DoneTask]
        /\ event' = IF ok THEN NoEvent ELSE MonthlyLoadFailed
        /\ UNCHANGED <<mounted, settings, persisted, osAutostart, osPermission>>
        /\ UNCHANGED <<schedulerVars, storeVars, stats, entries, selectedMonth,
                       achievement, achievementTimeout>>

(* ------------------------------ navigateMonth --------------------------- *)

\* SelectedMonthUpdater that wraps the month and leaves the year alone
SelectedMonthUpdaterKeepsYear(prev, direction) ==
    LET newMonth == prev.month + direction IN
    IF newMonth > 12 THEN [year |-> prev.year, month |-> 1]
    ELSE IF newMonth < 1 THEN [year |-> prev.year, month |-> 12]
    ELSE [year |-> prev.year, month |-> newMonth]

\* the updater navigateMonth hands to setSelectedMonth
SelectedMonthUpdater(prev, direction) ==
    LET newMonth == prev.month + direction IN
    IF newMonth > 12 THEN [year |-> prev.year + 1, month |-> 1]
    ELSE IF newMonth < 1 THEN [year |-> prev.year - 1, month |-> 12]
    ELSE [year |-> prev.year, month |-> newMonth]

\* how many months lie between two months
MonthsBetween(a, b) ==
    LET d == (b.year * 12 + b.month) - (a.year * 12 + a.month) IN
    IF d < 0 THEN 0 - d ELSE d

\* the slot of the loadMonthlyStats a navigation causes: a free one, or else
\* that of a call that has returned
ReturnedSlots == {i \in TaskSlots : tasks[i].pc = "done"}

NavigationSlot ==
    IF FreeSlots # {} THEN NewSlot
    ELSE CHOOSE i \in ReturnedSlots : \A j \in ReturnedSlots : i <= j

\* the previous-month and next-month buttons of the analytics tab:
\* setSelectedMonth(updater); loadMonthlyStats is re-created for the new month
\* and the effect on [tab, loadMonthlyStats] calls it
navigateMonth(direction) ==
    /\ mounted
    /\ FreeSlots \cup ReturnedSlots # {}
    /\ MonthsBetween(ThisMonth, SelectedMonthUpdater(selectedMonth, direction))
           <= MaxAway
    /\ selectedMonth' = SelectedMonthUpdater(selectedMonth, direction)
    /\ tasks' = [tasks EXCEPT ![NavigationSlot] =
           [IdleTask EXCEPT !.pc = "monthly_read", !.month = selectedMonth']]
    /\ event' = NoEvent
    /\ UNCHANGED <<mounted, settings, persisted, osAutostart, osPermission>>
    /\ UNCHANGED <<schedulerVars, storeVars, stats, entries, monthlyStats,
                   achievement, achievementTimeout>>

UserNavigatesMonth == \E direction \in {-1, 1} : navigateMonth(direction)

(* ---------------------------- specification ----------------------------- *)

\* The first render and its effects: loadData is called and awaits the store,
\* setupReminder (defaultSettings has reminders on) awaits isPermissionGranted.
\* The store, the OS registration and the OS permission are as an earlier
\* session, or the user, left them.
Start(storedSettings, storedEntries, storedDays) ==
    /\ mounted = TRUE
    /\ settings = defaultSettings
    /\ persisted \in storedSettings
    /\ store \in storedEntries
    /\ nextEntry = Cardinality(store) + 1
    /\ history \in storedDays
    /\ stats = Null
    /\ entries = {}
    /\ monthlyStats = Null
    /\ selectedMonth = ThisMonth
    /\ achievement = FALSE
    /\ achievementTimeout = FALSE
    /\ osAutostart \in BOOLEAN
    /\ osPermission \in BOOLEAN
    /\ tasks = [i \in TaskSlots |->
                  IF i = 1 THEN [IdleTask EXCEPT !.pc = "load_read"] ELSE IdleTask]
    /\ setups = {[id |-> 1, pc |-> "check",
                  interval |-> defaultSettings.reminder_interval_minutes,
                  sound |-> defaultSettings.sound_enabled,
                  origin |-> "mount"]}
    /\ nextRun = 2
    /\ reminderInterval = 0
    /\ timers = {}
    /\ oneShots = {}
    /\ deniedSince = FALSE
    /\ event = NoEvent

\* stored settings with a goal that is valid
ValidSettings == {s \in Settings : s.daily_goal_ml > 0}

\* stored settings that differ from the defaults in the reminder and autostart
\* fields only
PlainSettings ==
    {s \in Settings : /\ s.daily_goal_ml = defaultSettings.daily_goal_ml
                      /\ s.sound_enabled = defaultSettings.sound_enabled}

Init == Start(ValidSettings, Stores(MaxEntries), Histories(MaxDay))

Next ==
    \/ UserTogglesReminders
    \/ UserChangesInterval
    \/ UserTogglesAutostart
    \/ UserChangesGoal
    \/ UserTogglesSound
    \/ AutostartReturns
    \/ SaveSettingsReturns
    \/ LoadDataReads
    \/ LoadDataChecksAutostart
    \/ LoadDataSavesCorrection
    \/ UserAddsWater
    \/ TrayQuickAdd
    \/ AddWaterReturns
    \/ AddRefetchReturns
    \/ AchievementTimeoutFires
    \/ UserRemovesEntry
    \/ RemoveEntryReturns
    \/ loadMonthlyStats
    \/ GetMonthlyStatsReturns
    \/ UserNavigatesMonth
    \/ GetTodayStatsAnswered
    \/ UserTypesInterval
    \/ IsPermissionGrantedReturns
    \/ RequestPermissionReturns
    \/ TestNotificationFires
    \/ ReminderIntervalFires
    \/ Unmount
    \/ PermissionChangedInSystem

Spec == Init /\ [][Next]_vars

\* The scheduler on its own: autostart is off in the store and in the OS
\* and the user leaves that checkbox alone, so that enableAutostart,
\* disableAutostart and the reconciling save_settings are never called.
\* Nothing was drunk and the user leaves goal, sound and water alone.
InitScheduler ==
    /\ Start({s \in PlainSettings : ~s.start_with_system}, {{}}, {<<>>})
    /\ ~osAutostart

NextScheduler ==
    \/ UserTogglesReminders
    \/ UserChangesInterval
    \/ SaveSettingsReturns
    \/ LoadDataReads
    \/ LoadDataChecksAutostart
    \/ IsPermissionGrantedReturns
    \/ RequestPermissionReturns
    \/ TestNotificationFires
    \/ ReminderIntervalFires
    \/ Unmount
    \/ PermissionChangedInSystem

SpecScheduler == InitScheduler /\ [][NextScheduler]_vars

\* The settings synchroniser on its own: the notification permission is
\* granted and stays so, and the user leaves the reminder settings alone.
\* Nothing was drunk and the user leaves goal, sound and water alone.
InitSync ==
    /\ Start(PlainSettings, {{}}, {<<>>})
    /\ osPermission

NextSync ==
    \/ UserTogglesAutostart
    \/ AutostartReturns
    \/ SaveSettingsReturns
    \/ LoadDataReads
    \/ LoadDataChecksAutostart
    \/ LoadDataSavesCorrection
    \/ IsPermissionGrantedReturns
    \/ TestNotificationFires
    \/ ReminderIntervalFires
    \/ Unmount

SpecSync == InitSync /\ [][NextSync]_vars

\* Today's water: the stored settings are the defaults but for the goal, at
\* most one entry was stored before the start, autostart is off everywhere
\* and the notification permission is granted.  The user adds and removes
\* water, changes the goal and opens the analytics tab.
InitToday ==
    /\ Start({[defaultSettings EXCEPT !.daily_goal_ml = g] : g \in {1000, 4000}},
             Stores(1), {<<>>})
    /\ ~osAutostart
    /\ osPermission

NextToday ==
    \/ UserAddsWater
    \/ TrayQuickAdd
    \/ AddWaterReturns
    \/ AddRefetchReturns
    \/ AchievementTimeoutFires
    \/ UserRemovesEntry
    \/ RemoveEntryReturns
    \/ UserChangesGoal
    \/ SaveSettingsReturns
    \/ LoadDataReads
    \/ LoadDataChecksAutostart
    \/ loadMonthlyStats
    \/ GetMonthlyStatsReturns
    \/ IsPermissionGrantedReturns
    \/ TestNotificationFires
    \/ ReminderIntervalFires
    \/ Unmount

SpecToday == InitToday /\ [][NextToday]_vars

\* stored settings: the defaults, with one of two goals
GoalSettings == {[defaultSettings EXCEPT !.daily_goal_ml = g] : g \in {1000, 4000}}

\* The statistics of a day: the app starts on any entries the store can hold
\* and loads them; the user adds water.
InitDaily ==
    /\ Start(GoalSettings, Stores(MaxEntries), {<<>>})
    /\ ~osAutostart
    /\ osPermission

NextDaily ==
    \/ LoadDataReads
    \/ LoadDataChecksAutostart
    \/ UserAddsWater
    \/ AddWaterReturns
    \/ AddRefetchReturns
    \/ AchievementTimeoutFires

SpecDaily == InitDaily /\ [][NextDaily]_vars

\* The statistics of a month: the app starts on any days with data the store
\* can hold, and the user opens the analytics tab.
InitMonthly ==
    /\ Start(GoalSettings, {{}}, Histories(MaxDay))
    /\ ~osAutostart
    /\ osPermission

NextMonthly ==
    \/ LoadDataReads
    \/ LoadDataChecksAutostart
    \/ loadMonthlyStats
    \/ GetMonthlyStatsReturns

SpecMonthly == InitMonthly /\ [][NextMonthly]_vars

\* The Sound setting and the scheduler: sounds are on in the store, autostart
\* is off everywhere, the notification permission is granted and stays so.
\* The user toggles Sound or Enable Reminders.
InitSound ==
    /\ Start({s \in PlainSettings : ~s.start_with_system}, {{}}, {<<>>})
    /\ ~osAutostart
    /\ osPermission

NextSound ==
    \/ UserTogglesSound
    \/ UserTogglesReminders
    \/ SaveSettingsReturns
    \/ LoadDataReads
    \/ LoadDataChecksAutostart
    \/ IsPermissionGrantedReturns
    \/ TestNotificationFires
    \/ ReminderIntervalFires
    \/ Unmount

SpecSound == InitSound /\ [][NextSound]_vars

\* The reconciliation against a user's save: the store says autostart is on,
\* the OS says it is off, so the loadData of the first render reconciles;
\* meanwhile the user toggles Sound.  The notification permission is granted.
InitReconcile ==
    /\ Start({s \in PlainSettings : s.start_with_system}, {{}}, {<<>>})
    /\ ~osAutostart
    /\ osPermission

NextReconcile ==
    \/ UserTogglesSound
    \/ SaveSettingsReturns
    \/ LoadDataReads
    \/ LoadDataChecksAutostart
    \/ LoadDataSavesCorrection
    \/ IsPermissionGrantedReturns
    \/ TestNotificationFires
    \/ ReminderIntervalFires
    \/ Unmount

SpecReconcile == InitReconcile /\ [][NextReconcile]_vars

\* The Reminder Interval field: autostart is off everywhere, the notification
\* permission is granted, and the user types into the field.
InitInterval ==
    /\ Start({s \in PlainSettings : ~s.start_with_system}, {{}}, {<<>>})
    /\ ~osAutostart
    /\ osPermission

NextInterval ==
    \/ UserTypesInterval
    \/ SaveSettingsReturns
    \/ LoadDataReads
    \/ LoadDataChecksAutostart
    \/ IsPermissionGrantedReturns
    \/ TestNotificationFires
    \/ ReminderIntervalFires
    \/ Unmount

SpecInterval == InitInterval /\ [][NextInterval]_vars

\* The achievement notification: the stored goal is 1000 ml, at most one entry
\* was stored before the start, autostart is off everywhere and the
\* notification permission is granted.  The user adds water and toggles
\* Enable Reminders.  A call awaited resolves or rejects in the end, and a
\* timeout that stays pending fires.
InitAchievement ==
    /\ Start({s \in Settings : /\ s.daily_goal_ml = 1000
                               /\ s.sound_enabled = defaultSettings.sound_enabled
                               /\ s.reminder_enabled
                               /\ ~s.start_with_system},
             Stores(1), {<<>>})
    /\ ~osAutostart
    /\ osPermission

NextAchievement ==
    \/ UserAddsWater
    \/ AddWaterReturns
    \/ AddRefetchReturns
    \/ AchievementTimeoutFires
    \/ UserTogglesReminders
    \/ SaveSettingsReturns
    \/ LoadDataReads
    \/ LoadDataChecksAutostart
    \/ IsPermissionGrantedReturns
    \/ TestNotificationFires
    \/ ReminderIntervalFires
    \/ Unmount

SpecAchievement ==
    /\ InitAchievement
    /\ [][NextAchievement]_vars
    /\ WF_vars(AchievementTimeoutFires)
    /\ WF_vars(AddWaterReturns)
    /\ WF_vars(AddRefetchReturns)
    /\ WF_vars(SaveSettingsReturns)
    /\ WF_vars(LoadDataReads)
    /\ WF_vars(LoadDataChecksAutostart)
    /\ WF_vars(IsPermissionGrantedReturns)
    /\ WF_vars(TestNotificationFires)

\* Today's view against the store: the stored settings are the defaults, at
\* most one entry was stored before the start, autostart is off everywhere.
\* The user adds and removes water, the tray sends quick-add events, and the
\* store answers the reads of a loadData together or the statistics first.
InitSnapshot ==
    /\ Start({defaultSettings}, Stores(1), {<<>>})
    /\ ~osAutostart
    /\ osPermission

NextSnapshot ==
    \/ UserAddsWater
    \/ TrayQuickAdd
    \/ AddWaterReturns
    \/ AddRefetchReturns
    \/ AchievementTimeoutFires
    \/ UserRemovesEntry
    \/ RemoveEntryReturns
    \/ GetTodayStatsAnswered
    \/ LoadDataReads
    \/ LoadDataChecksAutostart
    \/ Unmount

SpecSnapshot == InitSnapshot /\ [][NextSnapshot]_vars

\* The month navigation: the stored settings are the defaults, the store
\* holds up to two days of the starting month, and the user opens the
\* analytics tab and steps through the months.
InitNavigate ==
    /\ Start({defaultSettings}, {{}}, Histories(2))
    /\ ~osAutostart
    /\ osPermission

NextNavigate ==
    \/ UserNavigatesMonth
    \/ loadMonthlyStats
    \/ GetMonthlyStatsReturns
    \/ LoadDataReads
    \/ LoadDataChecksAutostart

SpecNavigate == InitNavigate /\ [][NextNavigate]_vars


(* -------------------------------- claims -------------------------------- *)

RunIds(S) == {r.id : r \in S}

\* the setup runs that end in this step
EndingRuns == {r \in setups : r.id \notin RunIds(setups')}

LoadPcs == {"load_read", "load_autostart", "load_save"}

\* C1: in every reachable state at most one recurring timer is live, and a
\* live timer is the one the handle reminderInterval holds (so that the next
\* setup run, which clears the handle's timer before setInterval, cancels it).
ClaimC1_AtMostOneTimer ==
    /\ Cardinality(timers) <= 1
    /\ \A t \in timers : t.id = reminderInterval

\* Two setup runs have armed (both confirmation timeouts are pending) and one
\* recurring timer is live.
WitnessC1_Rearmed ==
    /\ Cardinality(oneShots) >= 2
    /\ Cardinality(timers) = 1

\* C2: once every setup run has completed, no recurring timer is live while
\* reminder_enabled is false.
ClaimC2_DisarmedWhileDisabled ==
    (setups = {} /\ ~settings.reminder_enabled) => timers = {}

\* C3: a confirmation one-shot fires only while the arming that scheduled
\* it is still in force, that is, while the recurring timer created with it
\* is live; disarming and re-arming cancel it.
ClaimC3_OneShotCancelled ==
    [][\A id \in oneShots \ oneShots' : id \in TimerIds]_vars

\* C4: after the component is torn down no recurring timer is live.
ClaimC4_NoTimerAfterTeardown ==
    ~mounted => timers = {}

\* C5: a setup run that ends has either created its timer, and then the
\* permission was found granted in that run, or it has created none, and then
\* (permission not granted) no recurring timer is live and the toast reports
\* the missing permission.
ClaimC5_ArmedOnlyWhenGranted ==
    [][\A r \in EndingRuns :
         IF r.id \in {t.id : t \in timers'}
         THEN osPermission'
         ELSE /\ timers' = {}
              /\ mounted => event' = PermissionToast]_vars

\* C6: after a permission request has been denied, requestPermission is
\* called again only by a setup run that a user's change of a reminder
\* setting started, never by one that a loadData started.
ClaimC6_NoAutomaticRetry ==
    [][\A r \in setups, q \in setups' :
         (deniedSince /\ r.id = q.id /\ r.pc = "check" /\ q.pc = "request")
             => r.origin # "load"]_vars

\* C7: once every setup run has completed and reminders are enabled, a live
\* recurring timer has the period of the current reminder_interval_minutes.
ClaimC7_PeriodIsCurrentInterval ==
    (mounted /\ setups = {} /\ settings.reminder_enabled)
        => \A t \in timers : t.ms = IntervalMs(settings.reminder_interval_minutes)

\* C8: a step in which sendNotification throws (in the recurring callback or
\* in the confirmation one-shot) leaves the live recurring timers, their
\* periods and the handle as they were.
ClaimC8_FailedDeliveryKeepsTimer ==
    [][event' = DeliveryFailed
         => (timers' = timers /\ reminderInterval' = reminderInterval)]_vars

\* A delivery has just failed and the recurring timer is live.
WitnessC8_FailedDeliveryTimerLive ==
    /\ event = DeliveryFailed
    /\ timers # {}
    /\ \A t \in timers : t.id = reminderInterval

\* the value loadData read from the store differs from the OS state it fetches
\* (at load_save it has found so and has taken the OS value already)
FoundDifferent(i) ==
    \/ tasks[i].pc = "load_save"
    \/ /\ tasks[i].pc = "load_autostart"
       /\ tasks[i].saved.start_with_system # osAutostart

ClaimC10_PersistOnlyOnOsSuccess ==
    [][\A i \in TaskSlots :
         (tasks[i].pc = "save" /\ tasks[i].osResult = "failed" /\ tasks'[i].pc # "save")
             => persisted'.start_with_system = persisted.start_with_system]_vars

UserSlots == TaskSlots \ {1}

\* C11: An add request with an amount <= 0 (button, custom field or tray
\* event) is refused before it reaches the store: add_water is never invoked
\* with a non-positive amount, no stored entry has one, and the step that
\* refuses (the error sound, no call started or ended) leaves the stored
\* entries and the displayed stats and entries as they were.
ClaimC11_NonPositiveRejected ==
    [][/\ \A i \in TaskSlots : tasks'[i].pc = "add_water" => tasks'[i].arg > 0
       /\ \A e \in store' : e.amount_ml > 0
       /\ (event' = ErrorSound /\ tasks' = tasks)
              => UNCHANGED <<store, stats, entries>>]_vars

\* C11 witness: stats and a stored entry are on display, no handler call was
\* ever started, and the error sound of a refused add was played.
WitnessC11_Refused ==
    /\ event = ErrorSound
    /\ \A i \in UserSlots : tasks[i].pc = "idle"
    /\ stats # Null
    /\ store # {}
    /\ entries = store

\* C12: The goal is positive wherever it is kept: in the stored settings, in
\* every save_settings in flight (handleSaveSettings awaiting it) and in the
\* settings in memory.
ClaimC12_GoalPositive ==
    /\ persisted.daily_goal_ml > 0
    /\ settings.daily_goal_ml > 0
    /\ \A i \in TaskSlots : tasks[i].pc = "save" => tasks[i].updated.daily_goal_ml > 0

LoadDataReadFailed == \E i \in TaskSlots : tasks[i].pc = "load_read" /\ tasks'[i].pc = "done"

\* C13: A step in which a store read of loadData or of loadMonthlyStats fails
\* leaves stats, entries, settings and monthly stats in memory as they were,
\* and the component mounted.
ClaimC13_FailedReadKeepsState ==
    [][(LoadDataReadFailed \/ event' = MonthlyLoadFailed)
           => UNCHANGED <<stats, entries, settings, monthlyStats, mounted>>]_vars

\* C13 witness: the initial loadData has returned without stats, so its read
\* failed, and the read of loadMonthlyStats has just failed; the component is
\* mounted with the values it started with.
WitnessC13_BothReadsFailed ==
    /\ mounted
    /\ tasks[1].pc = "done"
    /\ stats = Null
    /\ event = MonthlyLoadFailed
    /\ monthlyStats = Null
    /\ settings = defaultSettings

\* C17: A handler whose mutation of the store succeeded (add_water,
\* remove_entry, save_settings) does not return without calling loadData.
ClaimC17_LoadDataAfterMutation ==
    [][\A i \in TaskSlots :
          (\/ tasks[i].pc = "add_refetch"
           \/ tasks[i].pc = "remove_entry" /\ store' # store
           \/ tasks[i].pc = "save" /\ persisted' # persisted)
              => tasks'[i].pc # "done"]_vars

InUnit(r) ==
    /\ ~IsNaN(r)
    /\ GreaterEq(r, Rat(0, 1))
    /\ GreaterEq(Rat(1, 1), r)

\* C18: The value that drives the progress ring lies in [0, 1] whatever stats
\* are in memory.
ClaimC18_ProgressInUnit == InUnit(Progress(stats))

\* the amounts of the entries with ids 1..n, added up by id
RECURSIVE TotalById(_, _)
TotalById(es, n) ==
    IF n = 0 THEN 0
    ELSE TotalById(es, n - 1)
           + (IF \E e \in es : e.id = n
              THEN (CHOOSE e \in es : e.id = n).amount_ml ELSE 0)

\* p is the number n / d (total_ml / goal_ml * 100 is total_ml / (goal_ml / 100),
\* the goals being multiples of 100)
RatEq(p, n, d) == p.den # 0 /\ p.num * d = n * p.den

TwoEntries == {[id |-> 1, amount_ml |-> 2000], [id |-> 2, amount_ml |-> 2000]}

ThreeEntries == TwoEntries \cup {[id |-> 3, amount_ml |-> 500]}

\* C15: The DailyStats that a load installs for the stored entries of the day
\* and a goal > 0 have total_ml equal to the sum of the amounts, entries_count
\* equal to their number and percentage equal to total_ml / goal_ml * 100; for
\* the goal 4000, entries [2000, 2000] give {4000, 100, 2} and one more entry
\* of 500 gives {4500, 112.5, 3}.
ClaimC15_DailyStats ==
    [][(/\ \E i \in TaskSlots : tasks[i].pc = "load_read" /\ tasks'[i].pc = "load_autostart"
        /\ mounted
        /\ persisted.daily_goal_ml > 0)
          => /\ stats' # Null
             /\ stats'.goal_ml = persisted.daily_goal_ml
             /\ stats'.total_ml = TotalById(store, MaxEntries + MaxCalls)
             /\ stats'.entries_count = Cardinality(store)
             /\ RatEq(stats'.percentage, stats'.total_ml, stats'.goal_ml \div 100)
             /\ (store = TwoEntries /\ stats'.goal_ml = 4000)
                   => /\ stats'.total_ml = 4000
                      /\ RatEq(stats'.percentage, 100, 1)
                      /\ stats'.entries_count = 2
             /\ (store = ThreeEntries /\ stats'.goal_ml = 4000)
                   => /\ stats'.total_ml = 4500
                      /\ RatEq(stats'.percentage, 1125, 10)
                      /\ stats'.entries_count = 3]_vars

\* C15 witness: with the goal 4000 and entries [2000, 2000] stored, the user
\* added 500 and the handler's loadData has installed {4500, 112.5, 3}.
WitnessC15_ThirdEntryAdded ==
    /\ store = ThreeEntries
    /\ \E i \in UserSlots : tasks[i].pc = "done"
    /\ stats # Null
    /\ stats.goal_ml = 4000
    /\ stats.total_ml = 4500
    /\ stats.entries_count = 3
    /\ RatEq(stats.percentage, 1125, 10)

DataDays == {history[i].day : i \in 1..Len(history)}

MetDays(goal) ==
    {history[i].day : i \in {j \in 1..Len(history) : history[j].total_ml >= goal}}

\* the calendar days a..b all have data and meet the goal
IsRun(a, b, goal) == a <= b /\ \A d \in a..b : d \in MetDays(goal)

Longest(S) == IF S = {} THEN 0 ELSE CHOOSE n \in S : \A k \in S : k <= n

LastDataDay == CHOOSE d \in DataDays : \A e \in DataDays : e <= d

\* the longest run that ends at the most recent day with data
CurrentStreakOf(goal) ==
    IF DataDays = {} THEN 0
    ELSE Longest({LastDataDay - a + 1 : a \in {x \in 1..LastDataDay : IsRun(x, LastDataDay, goal)}})

\* the longest run of the month
BestStreakOf(goal) ==
    Longest({b - a + 1 : <<a, b>> \in {r \in (1..MaxDay) \X (1..MaxDay) : IsRun(r[1], r[2], goal)}})

ThreeMetOneMissed ==
    <<[day |-> 1, total_ml |-> 4000], [day |-> 2, total_ml |-> 4000],
      [day |-> 3, total_ml |-> 4000], [day |-> 4, total_ml |-> 500]>>

\* C16: In the MonthlyStats on display, current_streak is the length of the
\* run of goal-meeting, calendar-consecutive days that ends at the most recent
\* day with data (0 when that day misses the goal, or there is no data) and
\* best_streak is the length of the longest such run of the month; three
\* consecutive goal-meeting days and then a miss give 0 and 3.
ClaimC16_Streaks ==
    monthlyStats # Null =>
        /\ monthlyStats.current_streak = CurrentStreakOf(persisted.daily_goal_ml)
        /\ monthlyStats.best_streak = BestStreakOf(persisted.daily_goal_ml)
        /\ history = ThreeMetOneMissed
              => monthlyStats.current_streak = 0 /\ monthlyStats.best_streak = 3

\* C16 witness: the month of three goal-meeting days and a miss is on display
\* with streaks 0 and 3.
WitnessC16_ThreeThenMiss ==
    /\ history = ThreeMetOneMissed
    /\ monthlyStats # Null
    /\ monthlyStats.current_streak = 0
    /\ monthlyStats.best_streak = 3

Quiet ==
    /\ setups = {}
    /\ \A i \in TaskSlots : tasks[i].pc \in {"idle", "done"}

\* C14: With the component mounted and no handler call or setup run in
\* flight, a firing of the recurring reminder plays a sound exactly when
\* sound_enabled is set: after the user unchecks Sound no firing plays one,
\* after the user checks it every firing does, with no other setting changed.
ClaimC14_SoundFollowsSetting ==
    (mounted /\ Quiet) => \A t \in timers : playSound(t.sound) = settings.sound_enabled

\* C19: While the stored settings have reminder_enabled false and the user
\* has started no handler call, the scheduler is never armed: there is no
\* recurring timer and no pending confirmation one-shot, so no notification
\* is sent.
ClaimC19_StoredOffNeverArms ==
    (~persisted.reminder_enabled /\ \A i \in UserSlots : tasks[i].pc = "idle")
        => timers = {} /\ oneShots = {}

\* a handler call returns, other than by a failed store read, and leaves no
\* call in flight
LastCallReturns ==
    /\ \E i \in TaskSlots : /\ tasks[i].pc \in {"save", "load_autostart", "load_save"}
                            /\ tasks'[i].pc = "done"
    /\ \A i \in TaskSlots : tasks'[i].pc \in {"idle", "done"}

\* C20: When the last handleSaveSettings or loadData in flight returns (a
\* failed save_settings included), the settings in memory equal the stored
\* record.
ClaimC20_SettledMemoryIsStore ==
    [][(mounted /\ LastCallReturns) => settings' = persisted']_vars

\* the save_settings of a loadData reconciliation resolves
ReconciliationWrites ==
    \E i \in TaskSlots : /\ tasks[i].pc = "load_save"
                         /\ tasks'[i].pc = "done"
                         /\ persisted' = tasks[i].saved

\* the fields of the settings record other than start_with_system
OtherFields == DOMAIN defaultSettings \ {"start_with_system"}

\* C21: No write of a loadData reconciliation restores, in the store, the old
\* value of a settings field that handleSaveSettings has persisted since that
\* loadData read the settings.  The store is written by handleSaveSettings
\* and by the reconciliation only, and the reconciliation computes
\* start_with_system alone, so the first reconciliation write that changes
\* another stored field is one that puts back what it read before a user's
\* save: the property is that no reconciliation write changes another field.
ClaimC21_NoLostUpdate ==
    [][ReconciliationWrites => \A f \in OtherFields : persisted'[f] = persisted[f]]_vars

\* C22: Every recurring timer has a positive period: whatever the Reminder
\* Interval input hands to handleSaveSettings, the intervalMs given to
\* setInterval is greater than 0.
ClaimC22_PositivePeriod == \A t \in timers : t.ms > 0

\* C23: Whenever the achievement notification is shown it is hidden again in
\* the end (or the component is gone): its hide timeout stays pending until
\* it fires, whatever happens in between.
ClaimC23_AchievementHidden ==
    (mounted /\ achievement) ~> (~mounted \/ ~achievement)

\* no add, remove or load operation is in flight
NothingInFlight == \A i \in TaskSlots : tasks[i].pc \in {"idle", "done"}

\* C24: Once every add, remove and load operation in flight has completed,
\* the displayed daily stats and the displayed entries describe one store
\* snapshot: entries_count is the number of displayed entries and total_ml
\* the sum of their amounts.
ClaimC24_StatsMatchEntries ==
    (mounted /\ NothingInFlight /\ stats # Null)
        => /\ stats.entries_count = Cardinality(entries)
           /\ stats.total_ml = SumAmounts(entries)

\* C25: The selected month stays in 1..12; from December, navigateMonth(+1)
\* gives January of the next year; from January, navigateMonth(-1) gives
\* December of the previous year; and navigateMonth(+1) followed by
\* navigateMonth(-1) gives the (year, month) it started from.  The updater is
\* applied to every month a sequence of navigations reaches.
ClaimC25_MonthNavigation ==
    /\ selectedMonth.month \in 1..12
    /\ selectedMonth.month = 12 =>
          SelectedMonthUpdater(selectedMonth, 1)
              = [year |-> selectedMonth.year + 1, month |-> 1]
    /\ selectedMonth.month = 1 =>
          SelectedMonthUpdater(selectedMonth, -1)
              = [year |-> selectedMonth.year - 1, month |-> 12]
    /\ SelectedMonthUpdater(SelectedMonthUpdater(selectedMonth, 1), -1) = selectedMonth

\* the user went from December to January of the next year and back: both
\* loadMonthlyStats calls are still awaiting the store
WitnessC25_ThereAndBack ==
    /\ selectedMonth = ThisMonth
    /\ \E i, j \in TaskSlots :
          /\ tasks[i].pc = "monthly_read"
          /\ tasks[i].month = [year |-> ThisMonth.year + 1, month |-> 1]
          /\ tasks[j].pc = "monthly_read"
          /\ tasks[j].month = ThisMonth

====
